---- MODULE Spec2Model ----
(***************************************************************************)
(* A model of SecureAttend: the proof-of-work ledger (src/src/blockchain.py),*)
(* the liveness scorer (src/src/liveness_detector.py), the attendance       *)
(* tracker and the attendance session of src/src/gui_application.py, and    *)
(* the attendance store (src/src/database_manager.py), and the emotion     *)
(* detector (src/src/emotion_detector.py). The threads of the application  *)
(* are modelled statement by statement where they share the ledger, the    *)
(* running flag and the lists of known faces.                              *)
(*                                                                         *)
(* Numbers that are floats in the program are fixed-point integers here:    *)
(* liveness scores are in thousandths (0.7 is 700), engagement scores in    *)
(* hundredths (75.0 is 7500).                                              *)
(***************************************************************************)
EXTENDS Integers, Sequences, FiniteSets, TLC

VARIABLES
    \* ---- ledger (Blockchain object and its file) ----
    chain,          \* Blockchain.chain: sequence of Block records
    file,           \* content of blockchain_file: NoFile or the JSON text
    bcUp,           \* TRUE once a Blockchain object has been constructed
    lastReturn,     \* what the last add_block call returned (NoneHash for None)
    tampered,       \* "none", or the kind of in-memory mutation made to a block
    loads,          \* number of Blockchain constructions that read a file
    adders,         \* thread -> where its add_block call is, and its new_block
    \* ---- one call of LivenessDetector.detect_liveness ----
    lvPc,           \* "idle", "call" (arguments chosen) or "done" (returned)
    frameShape,     \* frame.shape[:2]: <<h, w>>
    face_location,  \* the argument <<top, right, bottom, left>>
    lvSignals,      \* what the extractors returned in this call
    lvInvoked,      \* the extractors this call invoked
    lvScore,        \* the local liveness_score before round(), in 1/Scale
    lvResult,       \* the returned pair [is_live, score], score in thousandths
    \* ---- AttendanceTracker ----
    frame_count,        \* tracker.frame_count
    detection_history,  \* tracker.detection_history: user_id -> state dict
    liveness_history,   \* tracker.liveness_history: user_id -> deque of scores
    recognized_today,   \* tracker.recognized_today
    lastCall,           \* the last tracker call made: [op, user_id, is_detected]
    observed,           \* user_id -> every score passed to update_liveness_smooth
    \* ---- the attendance store (attendance.db) ----
    attendance,         \* rows of the attendance table, in insertion order
    users,              \* users table: user_id -> [total_attendance, last_attendance]
    lastMark,           \* the last DatabaseManager call that returned: [op, user_id, date, ret]
    writers,            \* connection -> where its mark_attendance call is
    \* ---- the attendance session (locals of start_attendance) and its world ----
    phase,              \* "idle", "loop" (at the while test), "faces" or "stopped"
    facesLeft,          \* user_ids matched by the faces the for loop has yet to take
    current_detections, \* the user_ids matched in the current processed frame
    detected_faces,     \* user_id -> the dict kept for rendering
    today,              \* the calendar date datetime.now() gives
    config,             \* [enable_antispoofing, enable_blockchain]
    attempts,           \* user_id -> mark_attendance calls the session made for it
    \* ---- the GUI thread and the threads it starts for start_attendance ----
    attendance_running, \* SecureAttendApp.attendance_running
    pc,                 \* thread -> where it is in start_attendance
    known_encodings,    \* SecureAttendApp.known_encodings
    known_names,        \* SecureAttendApp.known_names
    known_user_ids,     \* SecureAttendApp.known_user_ids
    loader,             \* where a load_registered_users_fast call is, and its files
    matcher,            \* where the matching of a face is, and its locals
    cameras,            \* the threads that hold an opened VideoCapture
    closed,             \* the window has been destroyed
    lastClick,          \* what the last start_attendance_clicked did
    \* ---- the emotion detector ----
    emotion_history,    \* EmotionDetector.emotion_history, oldest label first
    emoCall             \* the last EmotionDetector call made: [op, ret]

chainVars == <<chain, file, bcUp, lastReturn, tampered, loads, adders>>
liveVars == <<lvPc, frameShape, face_location, lvSignals, lvInvoked, lvScore, lvResult>>

trackVars == <<frame_count, detection_history, liveness_history, recognized_today,
               lastCall, observed>>

dbVars == <<attendance, users, lastMark, writers>>
sessVars == <<phase, facesLeft, current_detections, detected_faces, today, config,
              attempts>>

\* the other known lists, and the calls that write and read them
listVars == <<known_names, known_user_ids, loader, matcher>>

threadVars == <<attendance_running, pc, known_encodings, cameras, closed, lastClick,
                listVars>>

emoVars == <<emotion_history, emoCall>>

vars == <<chainVars, liveVars, trackVars, dbVars, sessVars, threadVars, emoVars>>

\* the variables the ledger's operations leave alone
notChainVars == <<liveVars, trackVars, dbVars, sessVars, threadVars, emoVars>>
\* the variables a detect_liveness call leaves alone
notLiveVars == <<chainVars, trackVars, dbVars, sessVars, threadVars, emoVars>>
\* the variables the tracker's methods leave alone
notTrackVars == <<chainVars, liveVars, dbVars, sessVars, threadVars, emoVars>>
\* the variables the steps of the threads leave alone
notThreadVars == <<chainVars, liveVars, trackVars, dbVars, sessVars, emoVars>>
\* the variables the emotion detector's methods leave alone
notEmoVars == <<chainVars, liveVars, trackVars, dbVars, sessVars, threadVars>>

-----------------------------------------------------------------------------
(* Bounds of the model.                                                    *)

MaxChain == 2       \* blocks appended after genesis
MaxTs == 2          \* distinct clock readings str(datetime.now())
MaxLoads == 2       \* restarts that reload the persisted chain
MinePeriod == 8     \* one digest in MinePeriod starts with "00"
MaxTrackFrame == 38 \* frames read while the tracker's methods are called
MaxDetections == 6  \* consecutive_detections a tracked identity is driven to
MaxFrame == 12      \* frames an attendance session reads
MaxDay == 2         \* calendar dates the clock goes through
MaxFaces == 2       \* faces of one frame that match a known user
MaxAttempts == 2    \* mark_attendance calls a session makes for one user
MaxThreads == 3     \* threads start_attendance_clicked starts
MaxHistory == 4     \* labels the emotion history is filled with
MaxWriters == 2     \* connections that call mark_attendance at the same time
MaxObs == 11        \* scores passed to update_liveness_smooth for the first user
MaxOtherObs == 1    \* scores passed to update_liveness_smooth for any other user
Margin == 40        \* how far a bounding box reaches outside MinFace pixels

\* the registered users (known_user_ids)
Users == {"u1", "u2"}

\* the threads the GUI thread can start for start_attendance
Threads == 1..MaxThreads

-----------------------------------------------------------------------------
(* Ledger: Block.                                                          *)

\* Blockchain.difficulty
difficulty == 2

NoFile == [exists |-> FALSE, text |-> <<>>]
NoneHash == [lead |-> 0 - 2, pre |-> <<>>]
\* the genesis block's previous_hash, the string "0"
ZeroHash == [lead |-> 0 - 1, pre |-> <<>>]

\* The keys a payload may hold, in sorted order (json.dumps(..., sort_keys=True)).
SortedKeys == <<"date", "tampered", "type", "user_id">>

\* json.dumps(data, sort_keys=True): the key/value pairs of the dict in key order.
JsonDumpsSorted(data) ==
    LET ks == SelectSeq(SortedKeys, LAMBDA k : k \in DOMAIN data)
    IN  [i \in 1..Len(ks) |-> <<ks[i], data[ks[i]]>>]

\* A number standing for the bytes of one serialised key/value pair.
PairCode(p) ==
    IF p[1] = "date" THEN 3 + p[2]
    ELSE IF p[1] = "tampered" THEN 29
    ELSE CASE p[2] = "genesis" -> 5
           [] p[2] = "attendance" -> 7
           [] p[2] = "test" -> 11
           [] p[2] = "u1" -> 13
           [] p[2] = "u2" -> 17
           [] OTHER -> 19

RECURSIVE SumCodes(_)
SumCodes(s) == IF s = <<>> THEN 0 ELSE PairCode(Head(s)) + SumCodes(Tail(s))

\* hashlib.sha256(...).hexdigest(): an ideal digest. It is collision free (the
\* preimage is kept as the tail of the digest) and its first two hex characters,
\* lead \div 16 and lead % 16, depend on every part of the hashed string; they
\* are "00" for one string in MinePeriod.
Sha256HexDigest(s) ==
    [lead |-> (37 * ((31 * s[1] + 17 * s[2] + 13 * SumCodes(s[3])
                      + 11 * (IF s[4].lead < 0 THEN 1 ELSE s[4].pre[5] + 2)
                      + s[5] + 3) % MinePeriod)) % 256,
     pre |-> s]

\* f"{index}{timestamp}{json.dumps(data, sort_keys=True)}{previous_hash}{nonce}"
BlockString(b) ==
    <<b.index, b.timestamp, JsonDumpsSorted(b.data), b.previous_hash, b.nonce>>

calculate_hash(b) == Sha256HexDigest(BlockString(b))

\* hash[:n] for a digest: its first n hex characters (n <= 2)
HexPrefix(h, n) == SubSeq(<<h.lead \div 16, h.lead % 16>>, 1, n)

\* "0" * n
Zeros(n) == [i \in 1..n |-> 0]

\* Block.__init__: nonce 0 and the hash of the fields
NewBlock(index, timestamp, data, previous_hash) ==
    LET b == [index |-> index, timestamp |-> timestamp, data |-> data,
              previous_hash |-> previous_hash, nonce |-> 0, hash |-> ZeroHash]
    IN  [b EXCEPT !.hash = calculate_hash(b)]

\* Block.mine_block: while hash[:difficulty] != target: nonce += 1; rehash
RECURSIVE mine_block(_, _)
mine_block(b, d) ==
    IF HexPrefix(b.hash, d) = Zeros(d) THEN b
    ELSE LET b1 == [b EXCEPT !.nonce = b.nonce + 1]
         IN  mine_block([b1 EXCEPT !.hash = calculate_hash(b1)], d)

\* Block.to_dict followed by json.dump: the six members of one block as text,
\* the payload as its key/value pairs.
BlockToJson(b) ==
    <<<<"index", b.index>>, <<"timestamp", b.timestamp>>,
      <<"data", JsonDumpsSorted(b.data)>>,
      <<"previous_hash", b.previous_hash>>, <<"hash", b.hash>>,
      <<"nonce", b.nonce>>>>

\* json.load of a JSON object given as key/value pairs: the member named k
Member(pairs, k) ==
    pairs[CHOOSE i \in 1..Len(pairs) : pairs[i][1] = k][2]

\* json.load of one payload: the dict of its key/value pairs
JsonLoadData(pairs) ==
    [k \in {pairs[i][1] : i \in 1..Len(pairs)} |-> Member(pairs, k)]

-----------------------------------------------------------------------------
(* Ledger: Blockchain.                                                     *)

\* The body of load_chain's loop without the restore of nonce: the block keeps
\* the nonce 0 of Block.__init__.
BlockFromJsonNoNonce(block_dict) ==
    LET b == NewBlock(Member(block_dict, "index"), Member(block_dict, "timestamp"),
                      JsonLoadData(Member(block_dict, "data")),
                      Member(block_dict, "previous_hash"))
    IN  [b EXCEPT !.hash = Member(block_dict, "hash")]

\* load_chain's loop body: Block(...) of the stored fields, then the stored
\* hash and nonce put back (no mining)
BlockFromJson(block_dict) ==
    LET b == NewBlock(Member(block_dict, "index"), Member(block_dict, "timestamp"),
                      JsonLoadData(Member(block_dict, "data")),
                      Member(block_dict, "previous_hash"))
    IN  [b EXCEPT !.hash = Member(block_dict, "hash"),
                  !.nonce = Member(block_dict, "nonce")]

\* save_chain: the whole chain written over the file
SavedFile(c) == [exists |-> TRUE, text |-> [i \in 1..Len(c) |-> BlockToJson(c[i])]]

\* the keys load_chain reads of every stored block
BlockKeys == {"index", "timestamp", "data", "previous_hash", "hash", "nonce"}

\* json.load and the loop of load_chain go through without raising: the text
\* is whole and every stored block has the keys read
Loadable(f) ==
    \A i \in 1..Len(f.text) :
        {f.text[i][j][1] : j \in 1..Len(f.text[i])} = BlockKeys

\* load_chain: the chain of the file; the chain left empty when there is no
\* file, and set to [] by the except branch when the load raises
LoadedChain(f) ==
    IF f.exists /\ Loadable(f)
    THEN [i \in 1..Len(f.text) |-> BlockFromJson(f.text[i])]
    ELSE <<>>

\* the genesis payload
GenesisData == [type |-> "genesis"]

\* create_genesis_block: Block(0, now, genesis_data, "0") mined
GenesisBlock(ts) == mine_block(NewBlock(0, ts, GenesisData, ZeroHash), difficulty)

\* json.dumps raises TypeError for a payload it cannot serialise
Serialisable(data) == data.type # "unserialisable"

\* The link check of is_chain_valid left out.
IsChainValidHashOnly(c) ==
    \A i \in 2..Len(c) : c[i].hash = calculate_hash(c[i])

\* is_chain_valid: for every block after the first, the stored hash is the hash
\* of the stored fields and previous_hash is the hash of the block before
is_chain_valid(c) ==
    \A i \in 2..Len(c) :
        /\ c[i].hash = calculate_hash(c[i])
        /\ c[i].previous_hash = c[i - 1].hash

\* add_block with the new block linked to the block before the latest one.
NextBlockStale(c, data, ts) ==
    mine_block(NewBlock(Len(c), ts, data, c[Len(c)].previous_hash), difficulty)

\* add_block's new block: index len(chain), previous_hash the latest hash, mined
NextBlock(c, data, ts) ==
    mine_block(NewBlock(Len(c), ts, data, c[Len(c)].hash), difficulty)

\* a thread that is not inside add_block
IdleAdder == [pc |-> "idle", new_block |-> NewBlock(0, 0, GenesisData, ZeroHash)]

\* add_block: the chain after the call and what the call returns. With no
\* latest block, or when building the block raises, nothing is appended and
\* None is returned.
add_block(c, data, ts) ==
    IF c = <<>> \/ ~Serialisable(data)
    THEN [chain |-> c, ret |-> NoneHash, saved |-> FALSE]
    ELSE [chain |-> Append(c, NextBlock(c, data, ts)),
          ret |-> NextBlock(c, data, ts).hash, saved |-> TRUE]

-----------------------------------------------------------------------------
(* Liveness scorer: LivenessDetector.detect_liveness.                      *)

\* Scores of the scorer are integers in units of 1/Scale, so that the weights,
\* the divisors 50, 30 and 1500 and the halving are exact.
Scale == 60000

\* the smallest face region scored, in pixels
MinFace == 80

\* config liveness_threshold, in thousandths
liveness_threshold == 850

Min(a, b) == IF a < b THEN a ELSE b
Max(a, b) == IF a > b THEN a ELSE b

\* the bounding box clamped to the frame: <<top, right, bottom, left>>
Clamp(shape, loc) ==
    <<Max(0, loc[1]), Min(shape[2], loc[2]), Min(shape[1], loc[3]), Max(0, loc[4])>>

\* face_region.shape[:2] of frame[top:bottom, left:right] for a clamped box
RegionShape(box) == <<box[3] - box[1], box[2] - box[4]>>

\* calculate_reflection_score: 1.0 - glare_ratio * 10, glare_ratio in percent
calculate_reflection_score(glare) == Scale - 10 * ((glare * Scale) \div 100)

\* the weighted fusion of the five confidences
Fusion(sig) ==
    LET texture_confidence == Min((sig.texture_score * Scale) \div 50, Scale)
        color_confidence == Min((sig.color_diversity * Scale) \div 30, Scale)
        freq_confidence == Min((sig.freq_score * Scale) \div 1500, Scale)
        screen_confidence == IF sig.is_screen THEN 0 ELSE Scale
        reflection_score == calculate_reflection_score(sig.glare)
    IN  (texture_confidence * 35 + color_confidence * 25 + freq_confidence * 20
            + screen_confidence * 15 + reflection_score * 5) \div 100

\* The penalty written as two tests, one after the other.
PenalisedTwice(score, sig) ==
    LET s1 == IF sig.is_screen THEN score \div 2 ELSE score
    IN  IF sig.texture_score < 20 /\ sig.color_diversity < 12 THEN s1 \div 2 ELSE s1

\* if is_screen or (texture_score < 20 and color_diversity < 12): score *= 0.5
Penalised(score, sig) ==
    IF sig.is_screen \/ (sig.texture_score < 20 /\ sig.color_diversity < 12)
    THEN score \div 2
    ELSE score

\* round(liveness_score, 3): the nearest thousandth
Round3(score) == (score * 1000 + Scale \div 2) \div Scale

\* The size test with the width left out.
TooSmallHeightOnly(shape) == shape[1] < MinFace

\* face_region.shape[0] < 80 or face_region.shape[1] < 80
TooSmall(shape) == shape[1] < MinFace \/ shape[2] < MinFace

NoSignals == [texture_score |-> 0, color_diversity |-> 0, freq_score |-> 0,
              is_screen |-> FALSE, glare |-> 0]

Extractors == {"texture", "color_diversity", "frequency", "mobile_screen", "reflection"}

\* what the extractors can return for a face region
SignalValues ==
    [texture_score : {10, 19, 20, 60}, color_diversity : {5, 11, 12, 40},
     freq_score : {300, 1500}, is_screen : BOOLEAN, glare : {0, 3, 100}]

\* the hard rejects of detect_liveness: the clamped box is empty or inverted,
\* or the region is too small
Rejected(shape, loc) ==
    LET box == Clamp(shape, loc)
    IN  \/ box[3] <= box[1] \/ box[2] <= box[4]
        \/ TooSmall(RegionShape(box))

\* detect_liveness(frame, face_location) returning (False, 0.0) at once
detect_liveness_reject ==
    /\ lvPc = "call"
    /\ Rejected(frameShape, face_location)
    /\ lvPc' = "done"
    /\ lvResult' = [is_live |-> FALSE, score |-> 0]
    /\ UNCHANGED <<frameShape, face_location, lvSignals, lvInvoked, lvScore>>
    /\ UNCHANGED notLiveVars

\* detect_liveness(frame, face_location) running the five extractors, which
\* return sig, and scoring
detect_liveness(sig) ==
    /\ lvPc = "call"
    /\ ~Rejected(frameShape, face_location)
    /\ lvPc' = "done"
    /\ lvSignals' = sig
    /\ lvInvoked' = Extractors
    /\ lvScore' = Penalised(Fusion(sig), sig)
    /\ lvResult' = [is_live |-> lvScore' * 1000 >= liveness_threshold * Scale,
                    score |-> Round3(lvScore')]
    /\ UNCHANGED <<frameShape, face_location>>
    /\ UNCHANGED notLiveVars

\* the coordinates and frame sizes the calls are made with
Coords == {0 - Margin, 0, 1, MinFace, MinFace + 1, MinFace + Margin + 1}
FrameDims == {MinFace, MinFace + Margin}

\* no call of detect_liveness under way
LiveIdle ==
    /\ lvPc = "idle"
    /\ frameShape = <<0, 0>>
    /\ face_location = <<0, 0, 0, 0>>
    /\ lvSignals = NoSignals
    /\ lvInvoked = {}
    /\ lvScore = 0
    /\ lvResult = [is_live |-> FALSE, score |-> 0]

\* a call of detect_liveness with a frame and a bounding box
LiveInit ==
    /\ lvPc = "call"
    /\ frameShape \in FrameDims \X FrameDims
    /\ face_location \in Coords \X Coords \X Coords \X Coords
    /\ lvSignals = NoSignals
    /\ lvInvoked = {}
    /\ lvScore = 0
    /\ lvResult = [is_live |-> FALSE, score |-> 0]

LiveNext ==
    \/ detect_liveness_reject
    \/ \E sig \in SignalValues : detect_liveness(sig)

-----------------------------------------------------------------------------
(* AttendanceTracker.                                                      *)

detection_threshold == 5
detection_cooldown == 30
liveness_window == 10
display_duration == 45

\* the state dict update_detection creates for a user_id it has not seen
NewDetectionState ==
    [consecutive_detections |-> 0, last_seen |-> 0, is_stable |-> FALSE]

\* {}
EmptyDict == [x \in {} |-> 0]

\* the dict d with key k set to v
Put(d, k, v) == [x \in DOMAIN d \cup {k} |-> IF x = k THEN v ELSE d[x]]

\* update_detection with the cooldown test written >=.
update_detection_early_reset(dh, frame, user_id, is_detected) ==
    LET state == IF user_id \in DOMAIN dh THEN dh[user_id] ELSE NewDetectionState
    IN  IF is_detected
        THEN Put(dh, user_id,
                 [consecutive_detections |-> state.consecutive_detections + 1,
                  last_seen |-> frame,
                  is_stable |-> (state.consecutive_detections + 1 >= detection_threshold)
                                    \/ state.is_stable])
        ELSE IF frame - state.last_seen >= detection_cooldown
        THEN Put(dh, user_id, [state EXCEPT !.consecutive_detections = 0,
                                            !.is_stable = FALSE])
        ELSE Put(dh, user_id, state)

\* AttendanceTracker.update_detection: the detection_history after the call
\* (the call returns the user's is_stable in it)
update_detection(dh, frame, user_id, is_detected) ==
    LET state == IF user_id \in DOMAIN dh THEN dh[user_id] ELSE NewDetectionState
    IN  IF is_detected
        THEN Put(dh, user_id,
                 [consecutive_detections |-> state.consecutive_detections + 1,
                  last_seen |-> frame,
                  is_stable |-> (state.consecutive_detections + 1 >= detection_threshold)
                                    \/ state.is_stable])
        ELSE IF frame - state.last_seen > detection_cooldown
        THEN Put(dh, user_id, [state EXCEPT !.consecutive_detections = 0,
                                            !.is_stable = FALSE])
        ELSE Put(dh, user_id, state)

\* AttendanceTracker.should_display(user_id) on the tracker state (dh, frame)
should_display(dh, frame, user_id) ==
    IF user_id \notin DOMAIN dh
    THEN FALSE
    ELSE dh[user_id].is_stable /\ frame - dh[user_id].last_seen < display_duration

\* AttendanceTracker.__init__
TrackerInit ==
    /\ frame_count = 0
    /\ detection_history = EmptyDict
    /\ liveness_history = EmptyDict
    /\ recognized_today = {}
    /\ lastCall = [op |-> "none", user_id |-> "none", is_detected |-> FALSE]
    /\ observed = EmptyDict

\* the identity the tracker's methods are called for
TrackedUsers == {"u1"}

\* tracker.increment_frame()
increment_frame ==
    /\ frame_count < MaxTrackFrame
    /\ frame_count' = frame_count + 1
    /\ lastCall' = [op |-> "increment_frame", user_id |-> "none", is_detected |-> FALSE]
    /\ UNCHANGED <<detection_history, liveness_history, recognized_today, observed>>
    /\ UNCHANGED notTrackVars

\* tracker.update_detection(user_id, is_detected)
UpdateDetection(user_id, is_detected) ==
    /\ IF is_detected /\ user_id \in DOMAIN detection_history
       THEN detection_history[user_id].consecutive_detections < MaxDetections
       ELSE TRUE
    /\ detection_history' =
            update_detection(detection_history, frame_count, user_id, is_detected)
    /\ lastCall' = [op |-> "update_detection", user_id |-> user_id,
                    is_detected |-> is_detected]
    /\ UNCHANGED <<frame_count, liveness_history, recognized_today, observed>>
    /\ UNCHANGED notTrackVars

TrackNext ==
    \/ increment_frame
    \/ \E u \in TrackedUsers, d \in BOOLEAN : UpdateDetection(u, d)

-----------------------------------------------------------------------------
(* The attendance store: DatabaseManager.                                  *)

\* SELECT ... FROM attendance WHERE user_id = ? AND date = ?
RowsFor(rows, user_id, date) ==
    {i \in 1..Len(rows) : rows[i].user_id = user_id /\ rows[i].date = date}

\* get_attendance_records(date, user_id): the rows, or [] when the call raised
get_attendance_records(rows, date, user_id, ok) ==
    IF ok THEN RowsFor(rows, user_id, date) ELSE {}

\* UPDATE users SET total_attendance = total_attendance + 1, last_attendance = ?
\* WHERE user_id = ?
UpdateStatistics(usr, user_id, date) ==
    IF user_id \in DOMAIN usr
    THEN [usr EXCEPT ![user_id] =
            [usr[user_id] EXCEPT !.total_attendance = @ + 1,
                                 !.last_attendance = date]]
    ELSE usr

\* mark_attendance with the UPDATE of the user's statistics left out.
mark_attendance_no_statistics(rows, usr, user_id, date, ok) ==
    IF ~ok
    THEN [success |-> FALSE, msg |-> "error", attendance |-> rows, users |-> usr]
    ELSE IF RowsFor(rows, user_id, date) # {}
    THEN [success |-> FALSE, msg |-> "Already marked today",
          attendance |-> rows, users |-> usr]
    ELSE [success |-> TRUE, msg |-> "Success",
          attendance |-> Append(rows, [user_id |-> user_id, date |-> date]),
          users |-> usr]

\* mark_attendance with the statistics updated before the test for a row.
mark_attendance_counts_duplicate(rows, usr, user_id, date, ok) ==
    IF ~ok
    THEN [success |-> FALSE, msg |-> "error", attendance |-> rows, users |-> usr]
    ELSE IF RowsFor(rows, user_id, date) # {}
    THEN [success |-> FALSE, msg |-> "Already marked today",
          attendance |-> rows, users |-> UpdateStatistics(usr, user_id, date)]
    ELSE [success |-> TRUE, msg |-> "Success",
          attendance |-> Append(rows, [user_id |-> user_id, date |-> date]),
          users |-> UpdateStatistics(usr, user_id, date)]

\* mark_attendance(user_id, ...) on date `date`: (False, error) when the call
\* raised, (False, "Already marked today") when a row exists for the user and
\* the date, otherwise the row inserted and the user's statistics updated
mark_attendance(rows, usr, user_id, date, ok) ==
    IF ~ok
    THEN [success |-> FALSE, msg |-> "error", attendance |-> rows, users |-> usr]
    ELSE IF RowsFor(rows, user_id, date) # {}
    THEN [success |-> FALSE, msg |-> "Already marked today",
          attendance |-> rows, users |-> usr]
    ELSE [success |-> TRUE, msg |-> "Success",
          attendance |-> Append(rows, [user_id |-> user_id, date |-> date]),
          users |-> UpdateStatistics(usr, user_id, date)]

\* registration numbers, and registration_number = None
RegNos == {"r1", "r2"}
NoRegNo == "none"

\* the row of a user the registration form added: its registration number,
\* no attendance yet
RegisteredRow(u) ==
    [registration_number |-> IF u = "u1" THEN "r1" ELSE "r2",
     total_attendance |-> 0, last_attendance |-> 0]

\* what lastMark holds before any call has returned
NoCall == [op |-> "none", user_id |-> "none", date |-> 0, ret |-> "none"]

Writers == 1..MaxWriters

\* a connection with no call in progress
IdleWriter == [pc |-> "idle", user_id |-> "none", date |-> 0]

\* the user_ids whose row holds the registration number
get_user_by_regno(usr, registration_number) ==
    {v \in DOMAIN usr : usr[v].registration_number = registration_number}

\* add_user(user_id, name, face_encoding, registration_number): False when a
\* registration number is given and a row holds it; otherwise INSERT OR REPLACE
\* INTO users, which puts a new row with total_attendance 0 in the place of the
\* row of the same user_id, and True
add_user(user_id, registration_number) ==
    /\ IF registration_number # NoRegNo
            /\ get_user_by_regno(users, registration_number) # {}
       THEN /\ UNCHANGED users
            /\ lastMark' = [op |-> "add_user", user_id |-> user_id, date |-> today,
                            ret |-> "False"]
       ELSE /\ users' = Put(users, user_id,
                    [registration_number |-> registration_number,
                     total_attendance |-> 0, last_attendance |-> 0])
            /\ lastMark' = [op |-> "add_user", user_id |-> user_id, date |-> today,
                            ret |-> "True"]
    /\ UNCHANGED <<attendance, writers>>
    /\ UNCHANGED <<chainVars, liveVars, trackVars, sessVars, threadVars, emoVars>>

\* one mark_attendance call on the only connection, from connect to return
\* (ok: it did not raise)
MarkAttendance(user_id, ok) ==
    /\ LET w == mark_attendance(attendance, users, user_id, today, ok)
       IN  /\ attendance' = w.attendance
           /\ users' = w.users
           /\ lastMark' = [op |-> "mark_attendance", user_id |-> user_id,
                           date |-> today, ret |-> w.msg]
    /\ UNCHANGED writers
    /\ UNCHANGED <<chainVars, liveVars, trackVars, sessVars, threadVars, emoVars>>

\* the calendar date changes between two calls
NextDay ==
    /\ today < MaxDay
    /\ today' = today + 1
    /\ UNCHANGED <<phase, facesLeft, current_detections, detected_faces, config,
                   attempts>>
    /\ UNCHANGED <<chainVars, liveVars, trackVars, dbVars, threadVars, emoVars>>

\* the connections that hold the write lock of the database file (an open
\* transaction with the INSERT executed)
LockHolders == {w \in Writers : writers[w].pc \in {"inserted", "updated"}}

\* mark_attendance on connection w up to the fetchone() of its SELECT, which
\* reads the committed rows: "Already marked today" returned, or the call goes
\* on to its INSERT
WSelect(w, user_id) ==
    /\ writers[w].pc = "idle"
    /\ IF RowsFor(attendance, user_id, today) # {}
       THEN /\ lastMark' = [op |-> "mark_attendance", user_id |-> user_id,
                            date |-> today, ret |-> "Already marked today"]
            /\ UNCHANGED writers
       ELSE /\ writers' = [writers EXCEPT ![w] =
                    [pc |-> "checked", user_id |-> user_id, date |-> today]]
            /\ UNCHANGED lastMark
    /\ UNCHANGED <<attendance, users>>
    /\ UNCHANGED <<chainVars, liveVars, trackVars, sessVars, threadVars, emoVars>>

\* the INSERT of connection w: it opens a transaction and takes the write
\* lock, which it gets once no other connection holds it
WInsert(w) ==
    /\ writers[w].pc = "checked"
    /\ LockHolders = {}
    /\ writers' = [writers EXCEPT ![w].pc = "inserted"]
    /\ UNCHANGED <<attendance, users, lastMark>>
    /\ UNCHANGED <<chainVars, liveVars, trackVars, sessVars, threadVars, emoVars>>

\* the INSERT of connection w gives up waiting for the lock: "database is
\* locked" raised, (False, str(e)) returned
WLocked(w) ==
    /\ writers[w].pc = "checked"
    /\ LockHolders # {}
    /\ writers' = [writers EXCEPT ![w] = IdleWriter]
    /\ lastMark' = [op |-> "mark_attendance", user_id |-> writers[w].user_id,
                    date |-> writers[w].date, ret |-> "error"]
    /\ UNCHANGED <<attendance, users>>
    /\ UNCHANGED <<chainVars, liveVars, trackVars, sessVars, threadVars, emoVars>>

\* the UPDATE of the user's statistics inside the transaction of connection w
WUpdate(w) ==
    /\ writers[w].pc = "inserted"
    /\ writers' = [writers EXCEPT ![w].pc = "updated"]
    /\ UNCHANGED <<attendance, users, lastMark>>
    /\ UNCHANGED <<chainVars, liveVars, trackVars, sessVars, threadVars, emoVars>>

\* conn.commit() of connection w: its row and its statistics update become
\* the committed state, (True, "Success") returned
WCommit(w) ==
    /\ writers[w].pc = "updated"
    /\ attendance' = Append(attendance,
            [user_id |-> writers[w].user_id, date |-> writers[w].date])
    /\ users' = UpdateStatistics(users, writers[w].user_id, writers[w].date)
    /\ writers' = [writers EXCEPT ![w] = IdleWriter]
    /\ lastMark' = [op |-> "mark_attendance", user_id |-> writers[w].user_id,
                    date |-> writers[w].date, ret |-> "Success"]
    /\ UNCHANGED <<chainVars, liveVars, trackVars, sessVars, threadVars, emoVars>>

WritersNext ==
    \/ \E w \in Writers, u \in Users : WSelect(w, u)
    \/ \E w \in Writers : WInsert(w)
    \/ \E w \in Writers : WLocked(w)
    \/ \E w \in Writers : WUpdate(w)
    \/ \E w \in Writers : WCommit(w)

\* the tables as init_database creates them, before any user is registered
StoreInit ==
    /\ attendance = <<>>
    /\ users = EmptyDict
    /\ lastMark = NoCall
    /\ writers = [w \in Writers |-> IdleWriter]

StoreNext ==
    \/ \E u \in Users, r \in RegNos \cup {NoRegNo} : add_user(u, r)
    \/ \E u \in Users, ok \in BOOLEAN : MarkAttendance(u, ok)
    \/ NextDay

-----------------------------------------------------------------------------
(* The attendance session: SecureAttendApp.start_attendance.               *)

process_interval == 2

\* the user whose encoding is loaded (known_user_ids)
KnownUsers == {"u1"}

\* the raw scores detect_liveness returns for the faces of a session, in
\* thousandths
RawScores == {400, 900}

RECURSIVE SumSeq(_)
SumSeq(q) == IF q = <<>> THEN 0 ELSE Head(q) + SumSeq(Tail(q))

\* An append that leaves a full window as it is.
DequeAppendKeepOldest(q, score) ==
    IF Len(q) >= liveness_window THEN q ELSE Append(q, score)

\* deque(maxlen=liveness_window).append(score)
DequeAppend(q, score) ==
    IF Len(q) >= liveness_window THEN Append(Tail(q), score) ELSE Append(q, score)

\* update_liveness_smooth: the liveness_history after the call
update_liveness_smooth(lh, user_id, liveness_score) ==
    Put(lh, user_id,
        DequeAppend(IF user_id \in DOMAIN lh THEN lh[user_id] ELSE <<>>, liveness_score))

\* np.mean(window) >= 0.7, the verdict update_liveness_smooth returns
SmoothedLive(q) == SumSeq(q) >= 700 * Len(q)

\* np.mean(window), the score update_liveness_smooth returns, as the fraction
\* num / den of thousandths
SmoothedScore(q) == [num |-> SumSeq(q), den |-> Len(q)]

\* the pair detect_liveness returns for a face whose fused score is raw
ScorerResult(raw) == [is_live |-> raw >= liveness_threshold, score |-> raw]

\* the liveness stage run whatever enable_antispoofing says.
LivenessStageAlways(cfg, lh, user_id, raw) ==
    LET lh1 == update_liveness_smooth(lh, user_id, raw)
    IN  [scored |-> TRUE, history |-> lh1,
         is_live |-> SmoothedLive(lh1[user_id]),
         liveness_score |-> SmoothedScore(lh1[user_id])]

\* the liveness stage of the per-face loop: is_live = True and
\* liveness_score = 1.0, replaced with anti-spoofing enabled by what
\* update_liveness_smooth returns for the score detect_liveness gave
LivenessStage(cfg, lh, user_id, raw) ==
    IF cfg.enable_antispoofing
    THEN LET lh1 == update_liveness_smooth(lh, user_id, raw)
         IN  [scored |-> TRUE, history |-> lh1,
              is_live |-> SmoothedLive(lh1[user_id]),
              liveness_score |-> SmoothedScore(lh1[user_id])]
    ELSE [scored |-> FALSE, history |-> lh, is_live |-> TRUE,
          liveness_score |-> [num |-> 1000, den |-> 1]]

\* the attendance payload handed to add_block; date is the date of its
\* timestamp
AttendanceData(user_id, date) ==
    [type |-> "attendance", user_id |-> user_id, date |-> date]

\* Blockchain.get_attendance_records, narrowed to one user and date: the
\* positions of the attendance blocks after the genesis block
ChainRecordsFor(c, user_id, date) ==
    {i \in 2..Len(c) : c[i].data = AttendanceData(user_id, date)}

\* the test that guards the marking path, with is_live left out
ShouldMarkNoLiveness(is_stable, is_live, user_id, recognized) ==
    is_stable /\ user_id \notin recognized

\* if is_stable and is_live and user_id not in tracker.recognized_today
ShouldMark(is_stable, is_live, user_id, recognized) ==
    is_stable /\ is_live /\ user_id \notin recognized

\* start_attendance up to the while loop: a new AttendanceTracker, no faces
StartSession ==
    /\ phase = "idle"
    /\ phase' = "loop"
    /\ frame_count' = 0
    /\ detection_history' = EmptyDict
    /\ liveness_history' = EmptyDict
    /\ recognized_today' = {}
    /\ detected_faces' = EmptyDict
    /\ current_detections' = {}
    /\ facesLeft' = <<>>
    /\ UNCHANGED <<lastCall, observed, today, config, attempts>>
    /\ UNCHANGED <<chainVars, liveVars, dbVars, threadVars, emoVars>>

\* what the faces of one frame can match: any number of them, up to MaxFaces,
\* can match the same known user
FaceMatches == UNION {[1..n -> KnownUsers] : n \in 0..MaxFaces}

\* one pass of the while loop up to the per-face loop: cap.read(),
\* increment_frame and, on every process_interval-th frame, face detection and
\* matching: D lists, in the order of face_locations, the known user each face
\* matches (a face that matches nobody is passed over)
ReadFrame(D) ==
    /\ phase = "loop"
    /\ frame_count < MaxFrame
    /\ frame_count' = frame_count + 1
    /\ IF frame_count' % process_interval = 0
       THEN /\ phase' = "faces"
            /\ facesLeft' = D
            /\ current_detections' = {}
       ELSE /\ D = <<>>
            /\ UNCHANGED <<phase, facesLeft, current_detections>>
    /\ UNCHANGED <<detection_history, liveness_history, recognized_today, lastCall,
                   observed>>
    /\ UNCHANGED <<detected_faces, today, config, attempts>>
    /\ UNCHANGED <<chainVars, liveVars, dbVars, threadVars, emoVars>>

\* one pass of the per-face loop for a face that matches user_id: the lookup of
\* today's record (lookup_ok: it did not raise), liveness with smoothing (raw
\* is what detect_liveness returns), update_detection, the rendering dict, and
\* the marking path (write_ok: mark_attendance did not raise)
ProcessFace(user_id, raw, lookup_ok, write_ok) ==
    /\ phase = "faces"
    /\ facesLeft # <<>>
    /\ user_id = Head(facesLeft)
    /\ facesLeft' = Tail(facesLeft)
    /\ LET existing_records == get_attendance_records(attendance, today, user_id, lookup_ok)
           already_marked_in_db == existing_records # {}
           recognized1 == IF already_marked_in_db
                          THEN recognized_today \cup {user_id}
                          ELSE recognized_today
           stage == LivenessStage(config, liveness_history, user_id, raw)
           lh == stage.history
           is_live == stage.is_live
           dh == update_detection(detection_history, frame_count, user_id, TRUE)
           is_stable == dh[user_id].is_stable
           marking == ShouldMark(is_stable, is_live, user_id, recognized1)
           block == IF marking /\ config.enable_blockchain
                    THEN add_block(chain, AttendanceData(user_id, today), today)
                    ELSE [chain |-> chain, ret |-> NoneHash, saved |-> FALSE]
           written == IF marking
                      THEN mark_attendance(attendance, users, user_id, today, write_ok)
                      ELSE [success |-> FALSE, msg |-> "none",
                            attendance |-> attendance, users |-> users]
       IN  \* write_ok is read only on the marking path, raw only with
           \* anti-spoofing enabled
           /\ marking \/ write_ok
           /\ config.enable_antispoofing \/ raw = 900
           /\ marking => attempts[user_id] < MaxAttempts
           /\ liveness_history' = lh
           /\ detection_history' = dh
           /\ current_detections' = current_detections \cup {user_id}
           /\ chain' = block.chain
           /\ file' = IF block.saved THEN SavedFile(block.chain) ELSE file
           /\ attendance' = written.attendance
           /\ users' = written.users
           /\ lastMark' = IF marking
                          THEN [op |-> "mark_attendance", user_id |-> user_id,
                                date |-> today, ret |-> written.msg]
                          ELSE lastMark
           /\ UNCHANGED writers
           /\ attempts' = IF marking
                          THEN [attempts EXCEPT ![user_id] = @ + 1]
                          ELSE attempts
           /\ recognized_today' = IF written.success
                                  THEN recognized1 \cup {user_id}
                                  ELSE recognized1
           /\ detected_faces' = Put(detected_faces, user_id,
                    [is_live |-> is_live, liveness_score |-> stage.liveness_score,
                     is_stable |-> is_stable,
                     already_marked_in_db |-> already_marked_in_db,
                     just_marked |-> written.success,
                     mark_time |-> IF written.success THEN frame_count ELSE 0])
           /\ IF stage.scored
              THEN /\ lvPc' = "done"
                   /\ lvResult' = ScorerResult(raw)
              ELSE UNCHANGED <<lvPc, lvResult>>
    /\ UNCHANGED <<phase, today, config, frame_count, lastCall, observed>>
    /\ UNCHANGED <<bcUp, lastReturn, tampered, loads, adders>>
    /\ UNCHANGED <<frameShape, face_location, lvSignals, lvInvoked, lvScore>>
    /\ UNCHANGED <<threadVars, emoVars>>

\* update_detection(user_id, False) for every user of S
RECURSIVE MissAll(_, _, _)
MissAll(dh, frame, S) ==
    IF S = {} THEN dh
    ELSE LET u == CHOOSE x \in S : TRUE
         IN  MissAll(update_detection(dh, frame, u, FALSE), frame, S \ {u})

\* the end of a processed frame: the users not detected in it are told so, and
\* a just_marked flag older than 90 frames is cleared
EndFaces ==
    /\ phase = "faces"
    /\ facesLeft = <<>>
    /\ phase' = "loop"
    /\ detection_history' =
            MissAll(detection_history, frame_count,
                    DOMAIN detected_faces \ current_detections)
    /\ detected_faces' =
            [u \in DOMAIN detected_faces |->
                IF detected_faces[u].just_marked
                        /\ frame_count - detected_faces[u].mark_time > 90
                THEN [detected_faces[u] EXCEPT !.just_marked = FALSE]
                ELSE detected_faces[u]]
    /\ UNCHANGED <<frame_count, liveness_history, recognized_today, lastCall, observed>>
    /\ UNCHANGED <<facesLeft, current_detections, today, config, attempts>>
    /\ UNCHANGED <<chainVars, liveVars, dbVars, threadVars, emoVars>>

\* the loop left (attendance_running cleared, 'q' pressed or a failed read)
StopSession ==
    /\ phase = "loop"
    /\ phase' = "stopped"
    /\ UNCHANGED <<facesLeft, current_detections, detected_faces, today, config,
                   attempts>>
    /\ UNCHANGED <<chainVars, liveVars, trackVars, dbVars, threadVars, emoVars>>

\* the calendar date changes while the loop waits for a frame
Midnight ==
    /\ phase = "loop"
    /\ today < MaxDay
    /\ today' = today + 1
    /\ UNCHANGED <<phase, facesLeft, current_detections, detected_faces, config,
                   attempts>>
    /\ UNCHANGED <<chainVars, liveVars, trackVars, dbVars, threadVars, emoVars>>

\* no attendance row, nobody ever marked
StoreIdle ==
    /\ attendance = <<>>
    /\ users = [u \in Users |-> RegisteredRow(u)]
    /\ lastMark = NoCall
    /\ writers = [w \in Writers |-> IdleWriter]

SessionIdle ==
    /\ phase = "idle"
    /\ facesLeft = <<>>
    /\ current_detections = {}
    /\ detected_faces = EmptyDict
    /\ today = 1
    /\ config = [enable_antispoofing |-> TRUE, enable_blockchain |-> TRUE]
    /\ attempts = [u \in Users |-> 0]

\* the rows, user statistics and ledger an earlier run of the application
\* leaves when it marked the users of S on date 1
RECURSIVE MarkedBefore(_, _)
MarkedBefore(S, st) ==
    IF S = {} THEN st
    ELSE LET u == CHOOSE x \in S : TRUE
             w == mark_attendance(st.attendance, st.users, u, 1, TRUE)
         IN  MarkedBefore(S \ {u},
                [attendance |-> w.attendance, users |-> w.users,
                 chain |-> add_block(st.chain, AttendanceData(u, 1), 1).chain])

\* the application constructed: the ledger loaded or created, the store holding
\* what earlier runs marked today, the configuration read, no session yet
SessionInit ==
    /\ \E S \in SUBSET KnownUsers :
        LET st == MarkedBefore(S, [attendance |-> <<>>,
                    users |-> [u \in Users |-> RegisteredRow(u)],
                    chain |-> <<GenesisBlock(1)>>])
        IN  /\ attendance = st.attendance
            /\ users = st.users
            /\ chain = st.chain
            /\ file = SavedFile(st.chain)
    /\ lastMark = NoCall
    /\ writers = [w \in Writers |-> IdleWriter]
    /\ bcUp = TRUE
    /\ lastReturn = NoneHash
    /\ tampered = "none"
    /\ loads = 0
    /\ adders = [t \in Threads |-> IdleAdder]
    /\ phase = "idle"
    /\ facesLeft = <<>>
    /\ current_detections = {}
    /\ detected_faces = EmptyDict
    /\ today = 1
    /\ config \in [enable_antispoofing : BOOLEAN, enable_blockchain : BOOLEAN]
    /\ attempts = [u \in Users |-> 0]

\* the application constructed with nothing marked yet and every feature
\* enabled
FacesInit ==
    /\ SessionInit
    /\ attendance = <<>>
    /\ config = [enable_antispoofing |-> TRUE, enable_blockchain |-> TRUE]

\* a session in front of a scene where several faces of a frame can match the
\* same known user, the store answering every call
FacesNext ==
    \/ StartSession
    \/ \E D \in FaceMatches : ReadFrame(D)
    \/ \E u \in KnownUsers, raw \in RawScores : ProcessFace(u, raw, TRUE, TRUE)
    \/ EndFaces
    \/ StopSession

SessionNext ==
    \/ StartSession
    \/ \E D \in {d \in FaceMatches : Len(d) <= 1} : ReadFrame(D)
    \/ \E u \in KnownUsers, raw \in RawScores, lookup_ok \in BOOLEAN, write_ok \in BOOLEAN :
            ProcessFace(u, raw, lookup_ok, write_ok)
    \/ EndFaces
    \/ StopSession
    \/ Midnight

-----------------------------------------------------------------------------
(* AttendanceTracker: calls of update_liveness_smooth.                     *)

\* the scores passed so far for user_id
ObservedOf(obs, user_id) == IF user_id \in DOMAIN obs THEN obs[user_id] ELSE <<>>

\* how many scores a user is given
ObsBound(user_id) == IF user_id = "u1" THEN MaxObs ELSE MaxOtherObs

\* tracker.update_liveness_smooth(user_id, liveness_score), returning
\* (is_live, smoothed_score)
UpdateLivenessSmooth(user_id, liveness_score) ==
    /\ Len(ObservedOf(observed, user_id)) < ObsBound(user_id)
    /\ liveness_history' = update_liveness_smooth(liveness_history, user_id, liveness_score)
    /\ observed' = Put(observed, user_id,
                       Append(ObservedOf(observed, user_id), liveness_score))
    /\ lastCall' = [op |-> "update_liveness_smooth", user_id |-> user_id,
                    is_detected |-> FALSE,
                    ret |-> [is_live |-> SmoothedLive(liveness_history'[user_id]),
                             smoothed_score |-> SmoothedScore(liveness_history'[user_id])]]
    /\ UNCHANGED <<frame_count, detection_history, recognized_today>>
    /\ UNCHANGED notTrackVars

SmoothNext ==
    \E u \in Users, score \in RawScores : UpdateLivenessSmooth(u, score)

-----------------------------------------------------------------------------
(* Starting and stopping a session: start_attendance_clicked on the GUI    *)
(* thread, start_attendance on the threads it starts.                      *)

\* encodings[0] of the image of user u, and the name of user u
FaceEncoding(u) == <<"encoding", u>>
NameOf(u) == <<"name", u>>

\* the three lists load_registered_users_fast leaves for the image files of
\* `files`
LoadedLists(files) ==
    [known_encodings |-> [k \in 1..Len(files) |-> FaceEncoding(files[k])],
     known_names |-> [k \in 1..Len(files) |-> NameOf(files[k])],
     known_user_ids |-> files]

\* no load_registered_users_fast call under way, no face being matched
IdleLoader == [pc |-> "idle", files |-> <<>>]
IdleMatcher == [pc |-> "idle", t |-> 0, face |-> "none", best_match_idx |-> 0,
                name |-> <<>>]

\* the positions of a thread that is starting or running a session
SessionPcs == {"start", "check_known", "open_camera", "loop", "cleanup"}

SessionThreads == {t \in Threads : pc[t] \in SessionPcs}

\* start_attendance_clicked: the flag tested, then a thread started
start_attendance_clicked ==
    /\ ~closed
    /\ IF attendance_running
       THEN /\ lastClick' = "rejected"
            /\ UNCHANGED pc
       ELSE /\ \E t \in Threads :
                /\ pc[t] = "unborn"
                /\ \A o \in Threads : pc[o] = "unborn" => t <= o
                /\ pc' = [pc EXCEPT ![t] = "start"]
            /\ lastClick' = "started"
    /\ UNCHANGED <<attendance_running, known_encodings, cameras, closed>>
    /\ UNCHANGED listVars
    /\ UNCHANGED notThreadVars

\* start_attendance, first statement: self.attendance_running = True
SetRunning(t) ==
    /\ ~closed
    /\ pc[t] = "start"
    /\ attendance_running' = TRUE
    /\ pc' = [pc EXCEPT ![t] = "check_known"]
    /\ UNCHANGED <<known_encodings, cameras, closed, lastClick>>
    /\ UNCHANGED listVars
    /\ UNCHANGED notThreadVars

\* if not self.known_encodings: the flag cleared and return
CheckKnown(t) ==
    /\ ~closed
    /\ pc[t] = "check_known"
    /\ IF known_encodings # <<>>
       THEN /\ pc' = [pc EXCEPT ![t] = "open_camera"]
            /\ UNCHANGED attendance_running
       ELSE /\ pc' = [pc EXCEPT ![t] = "finally"]
            /\ attendance_running' = FALSE
    /\ UNCHANGED <<known_encodings, cameras, closed, lastClick>>
    /\ UNCHANGED listVars
    /\ UNCHANGED notThreadVars

\* cv2.VideoCapture(camera_index); if not cap.isOpened(): the flag cleared and
\* return
OpenCamera(t, opened) ==
    /\ ~closed
    /\ pc[t] = "open_camera"
    /\ IF opened
       THEN /\ pc' = [pc EXCEPT ![t] = "loop"]
            /\ cameras' = cameras \cup {t}
            /\ UNCHANGED attendance_running
       ELSE /\ pc' = [pc EXCEPT ![t] = "finally"]
            /\ attendance_running' = FALSE
            /\ UNCHANGED cameras
    /\ UNCHANGED <<known_encodings, closed, lastClick>>
    /\ UNCHANGED listVars
    /\ UNCHANGED notThreadVars

\* the while loop left: its test finds the flag cleared, or a frame cannot be
\* read or 'q' is pressed (how = "break"), or the body raises (how = "raise");
\* add_block catches what is raised inside it, so the loop is not left from
\* inside an add_block call
LeaveLoop(t, how) ==
    /\ ~closed
    /\ pc[t] = "loop"
    /\ adders[t].pc = "idle"
    /\ matcher.pc = "idle" \/ matcher.t # t
    /\ how = "test" => ~attendance_running
    /\ pc' = [pc EXCEPT ![t] = IF how = "raise" THEN "except" ELSE "cleanup"]
    /\ UNCHANGED <<attendance_running, known_encodings, cameras, closed, lastClick>>
    /\ UNCHANGED listVars
    /\ UNCHANGED notThreadVars

\* cap.release(); cv2.destroyAllWindows()
Cleanup(t) ==
    /\ ~closed
    /\ pc[t] = "cleanup"
    /\ cameras' = cameras \ {t}
    /\ pc' = [pc EXCEPT ![t] = "finally"]
    /\ UNCHANGED <<attendance_running, known_encodings, closed, lastClick>>
    /\ UNCHANGED listVars
    /\ UNCHANGED notThreadVars

\* except Exception: the error printed and a message box scheduled
Except(t) ==
    /\ ~closed
    /\ pc[t] = "except"
    /\ pc' = [pc EXCEPT ![t] = "finally"]
    /\ UNCHANGED <<attendance_running, known_encodings, cameras, closed, lastClick>>
    /\ UNCHANGED listVars
    /\ UNCHANGED notThreadVars

\* finally: self.attendance_running = False, first of its statements
Finally(t) ==
    /\ ~closed
    /\ pc[t] = "finally"
    /\ attendance_running' = FALSE
    /\ pc' = [pc EXCEPT ![t] = "returning"]
    /\ UNCHANGED <<known_encodings, cameras, closed, lastClick>>
    /\ UNCHANGED listVars
    /\ UNCHANGED notThreadVars

\* the rest of finally and the return of start_attendance: the locals are
\* dropped, and a VideoCapture that was never released is closed when the
\* object is deallocated
ThreadExit(t) ==
    /\ ~closed
    /\ pc[t] = "returning"
    /\ cameras' = cameras \ {t}
    /\ pc' = [pc EXCEPT ![t] = "done"]
    /\ UNCHANGED <<attendance_running, known_encodings, closed, lastClick>>
    /\ UNCHANGED listVars
    /\ UNCHANGED notThreadVars

\* on_closing, the user agreeing to quit: the flag cleared when it is set, the
\* window destroyed
on_closing ==
    /\ ~closed
    /\ attendance_running' = FALSE
    /\ closed' = TRUE
    /\ UNCHANGED <<pc, known_encodings, cameras, lastClick>>
    /\ UNCHANGED listVars
    /\ UNCHANGED notThreadVars

\* no thread started
ThreadsIdle ==
    /\ attendance_running = FALSE
    /\ pc = [t \in Threads |-> "unborn"]
    /\ known_encodings = LoadedLists(<<"u1", "u2">>).known_encodings
    /\ known_names = LoadedLists(<<"u1", "u2">>).known_names
    /\ known_user_ids = LoadedLists(<<"u1", "u2">>).known_user_ids
    /\ loader = IdleLoader
    /\ matcher = IdleMatcher
    /\ cameras = {}
    /\ closed = FALSE
    /\ lastClick = "none"

\* SecureAttendApp.__init__ and load_encodings: the flag clear, users
\* registered or not
ThreadsInit ==
    /\ attendance_running = FALSE
    /\ pc = [t \in Threads |-> "unborn"]
    /\ \E files \in {<<>>, <<"u1", "u2">>} :
        /\ known_encodings = LoadedLists(files).known_encodings
        /\ known_names = LoadedLists(files).known_names
        /\ known_user_ids = LoadedLists(files).known_user_ids
    /\ loader = IdleLoader
    /\ matcher = IdleMatcher
    /\ cameras = {}
    /\ closed = FALSE
    /\ lastClick = "none"

ThreadsNext ==
    \/ start_attendance_clicked
    \/ \E t \in Threads : SetRunning(t)
    \/ \E t \in Threads : CheckKnown(t)
    \/ \E t \in Threads, opened \in BOOLEAN : OpenCamera(t, opened)
    \/ \E t \in Threads, how \in {"test", "break", "raise"} : LeaveLoop(t, how)
    \/ \E t \in Threads : Cleanup(t)
    \/ \E t \in Threads : Except(t)
    \/ \E t \in Threads : Finally(t)
    \/ \E t \in Threads : ThreadExit(t)
    \/ on_closing

-----------------------------------------------------------------------------
(* Emotion detector: EmotionDetector. Engagement scores are in hundredths  *)
(* (75.0 is 7500).                                                         *)

EMOTIONS == {"Neutral", "Happy", "Sad", "Surprise", "Anger", "Fear", "Disgust"}
ENGAGED_EMOTIONS == {"Happy", "Surprise"}
DISENGAGED_EMOTIONS == {"Sad", "Anger", "Fear"}
history_size == 30

\* sum(1 for e in history if e in S)
CountIn(history, S) == Cardinality({i \in 1..Len(history) : history[i] \in S})

\* round(num / den, 0) as Python rounds: to the nearest, a tie to the even
RoundHalfEven(num, den) ==
    LET q == num \div den
        r == num % den
    IN  IF 2 * r > den \/ (2 * r = den /\ q % 2 = 1) THEN q + 1 ELSE q

\* calculate_engagement_score with a disengaged label weighing as much as an
\* engaged one.
calculate_engagement_score_full_weight(history) ==
    IF history = <<>> THEN 5000
    ELSE LET engaged_count == CountIn(history, ENGAGED_EMOTIONS)
             disengaged_count == CountIn(history, DISENGAGED_EMOTIONS)
             total == Len(history)
             num == 5000 * total + 5000 * engaged_count - 5000 * disengaged_count
             clamped == Max(0, Min(10000 * total, num))
         IN  RoundHalfEven(clamped, total)

\* calculate_engagement_score: 50.0 for an empty history, otherwise
\* 50 + 50 * (engaged - 0.5 * disengaged) / total, clamped to [0, 100] and
\* rounded to two decimals; num / total is the score in hundredths
calculate_engagement_score(history) ==
    IF history = <<>> THEN 5000
    ELSE LET engaged_count == CountIn(history, ENGAGED_EMOTIONS)
             disengaged_count == CountIn(history, DISENGAGED_EMOTIONS)
             total == Len(history)
             num == 5000 * total + 5000 * engaged_count - 2500 * disengaged_count
             clamped == Max(0, Min(10000 * total, num))
         IN  RoundHalfEven(clamped, total)

\* EmotionDetector.__init__
EmotionInit ==
    /\ emotion_history = <<>>
    /\ emoCall = [op |-> "none", ret |-> 0]

\* detect_emotion_simple, the classifier answering emotion: the label is
\* appended to the deque(maxlen=history_size)
detect_emotion_simple(emotion) ==
    /\ Len(emotion_history) < MaxHistory
    /\ emotion_history' =
            IF Len(emotion_history) >= history_size
            THEN Append(Tail(emotion_history), emotion)
            ELSE Append(emotion_history, emotion)
    /\ emoCall' = [op |-> "detect_emotion_simple", ret |-> 0]
    /\ UNCHANGED notEmoVars

\* a call of calculate_engagement_score
CalculateEngagement ==
    /\ emoCall' = [op |-> "calculate_engagement_score",
                   ret |-> calculate_engagement_score(emotion_history)]
    /\ UNCHANGED emotion_history
    /\ UNCHANGED notEmoVars

\* EmotionDetector.reset
EmotionReset ==
    /\ emotion_history' = <<>>
    /\ emoCall' = [op |-> "reset", ret |-> 0]
    /\ UNCHANGED notEmoVars

EmotionNext ==
    \/ \E emotion \in EMOTIONS : detect_emotion_simple(emotion)
    \/ CalculateEngagement
    \/ EmotionReset

-----------------------------------------------------------------------------
(* Ledger: the operations as actions.                                      *)

Times == 1..MaxTs

\* payloads handed to add_block
Payloads ==
    {[type |-> "test", user_id |-> u] : u \in Users}
        \cup {[type |-> "unserialisable"]}

\* Blockchain.__init__: load_chain, then create_genesis_block (which saves) when
\* the chain is empty. A construction while one object exists is a restart.
BlockchainInit(ts) ==
    /\ loads < MaxLoads
    /\ LET loaded == LoadedChain(file)
       IN  IF loaded = <<>>
           THEN /\ chain' = <<GenesisBlock(ts)>>
                /\ file' = SavedFile(<<GenesisBlock(ts)>>)
           ELSE /\ chain' = loaded
                /\ file' = file
    /\ loads' = IF file.exists THEN loads + 1 ELSE loads
    /\ bcUp' = TRUE
    /\ lastReturn' = NoneHash
    /\ tampered' = "none"
    /\ UNCHANGED adders
    /\ UNCHANGED notChainVars

\* Blockchain.add_block(data), on a chain nobody mutated
AddBlock(data, ts) ==
    /\ bcUp
    /\ tampered = "none"
    /\ Len(chain) <= MaxChain
    /\ LET r == add_block(chain, data, ts)
       IN  /\ chain' = r.chain
           /\ lastReturn' = r.ret
           /\ file' = IF r.saved THEN SavedFile(r.chain) ELSE file
    /\ UNCHANGED <<bcUp, tampered, loads, adders>>
    /\ UNCHANGED notChainVars

\* what a mutation of block.data can leave in its place: another payload, or
\* the payload with one more key (bc.chain[1].data['tampered'] = True)
Mutations(data) ==
    ({[type |-> t, user_id |-> u] : t \in {"test", "attendance"}, u \in Users}
        \cup {[k \in DOMAIN data \cup {"tampered"} |->
                 IF k = "tampered" THEN TRUE ELSE data[k]]}) \ {data}

\* block i's data mutated in memory, its hash left as it was
TamperData(i, data) ==
    /\ bcUp
    /\ tampered = "none"
    /\ i \in 2..Len(chain)
    /\ data \in Mutations(chain[i].data)
    /\ chain' = [chain EXCEPT ![i].data = data]
    /\ tampered' = "data"
    /\ UNCHANGED <<file, bcUp, lastReturn, loads, adders>>
    /\ UNCHANGED notChainVars

\* hashes a mutated previous_hash can be set to
OtherHashes(c, i) ==
    ({ZeroHash} \cup {c[j].hash : j \in 1..Len(c)}
        \cup {[c[i - 1].hash EXCEPT !.lead = 255 - c[i - 1].hash.lead]})
    \ {c[i - 1].hash}

\* block i's previous_hash mutated in memory to something else than the hash of
\* block i-1; the stored hash is kept, recomputed, or the block is mined again
TamperPrev(i, how) ==
    /\ bcUp
    /\ tampered = "none"
    /\ i \in 2..Len(chain)
    /\ \E h \in OtherHashes(chain, i) :
        LET b == [chain[i] EXCEPT !.previous_hash = h]
        IN  chain' = [chain EXCEPT ![i] =
                CASE how = "keep" -> b
                  [] how = "rehash" -> [b EXCEPT !.hash = calculate_hash(b)]
                  [] OTHER -> mine_block([b EXCEPT !.hash = calculate_hash(b)],
                                         difficulty)]
    /\ tampered' = "prev"
    /\ UNCHANGED <<file, bcUp, lastReturn, loads, adders>>
    /\ UNCHANGED notChainVars

\* the file left cut short inside its k-th block: save_chain opens it with
\* 'w' and writes it piece by piece, so a run that ends inside json.dump (or a
\* full disk, or an editor) leaves a text json.load cannot parse
CutFile(k) ==
    /\ file.exists
    /\ Loadable(file)
    /\ k \in 1..Len(file.text)
    /\ file' = [exists |-> TRUE,
                text |-> Append(SubSeq(file.text, 1, k - 1),
                                SubSeq(file.text[k], 1, 3))]
    /\ UNCHANGED <<chain, bcUp, lastReturn, tampered, loads, adders>>
    /\ UNCHANGED notChainVars

ChainInit ==
    /\ chain = <<>>
    /\ file = NoFile
    /\ bcUp = FALSE
    /\ lastReturn = NoneHash
    /\ tampered = "none"
    /\ loads = 0
    /\ adders = [t \in Threads |-> IdleAdder]

ChainNext ==
    \/ \E ts \in Times : BlockchainInit(ts)
    \/ \E d \in Payloads, ts \in Times : AddBlock(d, ts)
    \/ \E i \in 2..(MaxChain + 2), d \in UNION {Mutations(p) : p \in Payloads \ {[type |-> "unserialisable"]}} :
            TamperData(i, d)
    \/ \E i \in 2..(MaxChain + 2), how \in {"keep", "rehash", "remine"} :
            TamperPrev(i, how)
    \/ \E k \in 1..(MaxChain + 1) : CutFile(k)

-----------------------------------------------------------------------------
(* Ledger: add_block called by the session threads.                        *)

\* add_block on thread t up to the end of mine_block: the latest block and
\* len(self.chain) read, new_block built and mined (data is the attendance
\* payload of the face the session has just found stable and live)
AbMine(t, data, ts) ==
    /\ ~closed
    /\ pc[t] = "loop"
    /\ adders[t].pc = "idle"
    /\ chain # <<>>
    /\ Len(chain) + Cardinality({o \in Threads : adders[o].pc = "mined"}) <= MaxChain
    /\ adders' = [adders EXCEPT ![t] =
            [pc |-> "mined", new_block |-> NextBlock(chain, data, ts)]]
    /\ UNCHANGED <<chain, file, bcUp, lastReturn, tampered, loads>>
    /\ UNCHANGED notChainVars

\* self.chain.append(new_block) on thread t
AbAppend(t) ==
    /\ ~closed
    /\ adders[t].pc = "mined"
    /\ chain' = Append(chain, adders[t].new_block)
    /\ adders' = [adders EXCEPT ![t].pc = "appended"]
    /\ UNCHANGED <<file, bcUp, lastReturn, tampered, loads>>
    /\ UNCHANGED notChainVars

\* self.save_chain() and return new_block.hash on thread t
AbSave(t) ==
    /\ ~closed
    /\ adders[t].pc = "appended"
    /\ file' = SavedFile(chain)
    /\ lastReturn' = adders[t].new_block.hash
    /\ adders' = [adders EXCEPT ![t] = IdleAdder]
    /\ UNCHANGED <<chain, bcUp, tampered, loads>>
    /\ UNCHANGED notChainVars

\* the Blockchain object SecureAttendApp.__init__ constructs with no file
\* present, and no add_block call under way
AddersInit ==
    /\ chain = <<GenesisBlock(1)>>
    /\ file = SavedFile(chain)
    /\ bcUp = TRUE
    /\ lastReturn = NoneHash
    /\ tampered = "none"
    /\ loads = 0
    /\ adders = [t \in Threads |-> IdleAdder]

AddersNext ==
    \/ ThreadsNext
    \/ \E t \in Threads, ts \in Times : AbMine(t, AttendanceData("u1", today), ts)
    \/ \E t \in Threads : AbAppend(t)
    \/ \E t \in Threads : AbSave(t)

-----------------------------------------------------------------------------
(* The known lists: reloaded by the registration thread, read by the loop.  *)

\* what os.listdir(images_path) can return for the images of the registered
\* users: the order is arbitrary
ListDirs == {<<"u1", "u2">>, <<"u2", "u1">>}

\* load_registered_users_fast, called by register_user_camera on its thread:
\* self.known_encodings = []
LoadResetEncodings ==
    /\ ~closed
    /\ loader.pc = "idle"
    /\ known_encodings' = <<>>
    /\ loader' = [loader EXCEPT !.pc = "reset_names"]
    /\ UNCHANGED <<attendance_running, pc, cameras, closed, lastClick>>
    /\ UNCHANGED <<known_names, known_user_ids, matcher>>
    /\ UNCHANGED notThreadVars

\* self.known_names = []
LoadResetNames ==
    /\ ~closed
    /\ loader.pc = "reset_names"
    /\ known_names' = <<>>
    /\ loader' = [loader EXCEPT !.pc = "reset_user_ids"]
    /\ UNCHANGED <<attendance_running, pc, known_encodings, cameras, closed, lastClick>>
    /\ UNCHANGED <<known_user_ids, matcher>>
    /\ UNCHANGED notThreadVars

\* self.known_user_ids = [], then the image files listed
LoadResetUserIds(files) ==
    /\ ~closed
    /\ loader.pc = "reset_user_ids"
    /\ known_user_ids' = <<>>
    /\ loader' = [pc |-> "append_encoding", files |-> files]
    /\ UNCHANGED <<attendance_running, pc, known_encodings, cameras, closed, lastClick>>
    /\ UNCHANGED <<known_names, matcher>>
    /\ UNCHANGED notThreadVars

\* the next image read and encoded: self.known_encodings.append(encodings[0])
LoadAppendEncoding ==
    /\ ~closed
    /\ loader.pc = "append_encoding"
    /\ known_encodings' = Append(known_encodings, FaceEncoding(Head(loader.files)))
    /\ loader' = [loader EXCEPT !.pc = "append_name"]
    /\ UNCHANGED <<attendance_running, pc, cameras, closed, lastClick>>
    /\ UNCHANGED <<known_names, known_user_ids, matcher>>
    /\ UNCHANGED notThreadVars

\* self.known_names.append(name)
LoadAppendName ==
    /\ ~closed
    /\ loader.pc = "append_name"
    /\ known_names' = Append(known_names, NameOf(Head(loader.files)))
    /\ loader' = [loader EXCEPT !.pc = "append_user_id"]
    /\ UNCHANGED <<attendance_running, pc, known_encodings, cameras, closed, lastClick>>
    /\ UNCHANGED <<known_user_ids, matcher>>
    /\ UNCHANGED notThreadVars

\* self.known_user_ids.append(user_id), and on to the next image or the end
LoadAppendUserId ==
    /\ ~closed
    /\ loader.pc = "append_user_id"
    /\ known_user_ids' = Append(known_user_ids, Head(loader.files))
    /\ loader' = IF Tail(loader.files) = <<>>
                 THEN IdleLoader
                 ELSE [pc |-> "append_encoding", files |-> Tail(loader.files)]
    /\ UNCHANGED <<attendance_running, pc, known_encodings, cameras, closed, lastClick>>
    /\ UNCHANGED <<known_names, matcher>>
    /\ UNCHANGED notThreadVars

\* the loop of thread t matching the face of user `face`: compare_faces and
\* face_distance over self.known_encodings, np.argmin, matches[best_match_idx]
\* (a face no encoding matches is passed over)
MatchFace(t, face) ==
    /\ ~closed
    /\ pc[t] = "loop"
    /\ matcher.pc = "idle"
    /\ \E k \in 1..Len(known_encodings) :
        /\ known_encodings[k] = FaceEncoding(face)
        /\ matcher' = [pc |-> "matched", t |-> t, face |-> face, best_match_idx |-> k,
                       name |-> <<>>]
    /\ UNCHANGED <<attendance_running, pc, known_encodings, cameras, closed, lastClick>>
    /\ UNCHANGED <<known_names, known_user_ids, loader>>
    /\ UNCHANGED notThreadVars

\* name = self.known_names[best_match_idx]; an index past the end raises
\* IndexError, which ends the loop in the except branch
ReadKnownName ==
    /\ ~closed
    /\ matcher.pc = "matched"
    /\ IF matcher.best_match_idx \in 1..Len(known_names)
       THEN /\ matcher' = [matcher EXCEPT !.pc = "named",
                                          !.name = known_names[matcher.best_match_idx]]
            /\ UNCHANGED pc
       ELSE /\ matcher' = IdleMatcher
            /\ pc' = [pc EXCEPT ![matcher.t] = "except"]
    /\ UNCHANGED <<attendance_running, known_encodings, cameras, closed, lastClick>>
    /\ UNCHANGED <<known_names, known_user_ids, loader>>
    /\ UNCHANGED notThreadVars

\* user_id = self.known_user_ids[best_match_idx], or IndexError; the face is
\* then processed as the face of the user read
ReadKnownUserId ==
    /\ ~closed
    /\ matcher.pc = "named"
    /\ IF matcher.best_match_idx \in 1..Len(known_user_ids)
       THEN /\ matcher' = IdleMatcher
            /\ UNCHANGED pc
       ELSE /\ matcher' = IdleMatcher
            /\ pc' = [pc EXCEPT ![matcher.t] = "except"]
    /\ UNCHANGED <<attendance_running, known_encodings, cameras, closed, lastClick>>
    /\ UNCHANGED <<known_names, known_user_ids, loader>>
    /\ UNCHANGED notThreadVars

ListsNext ==
    \/ ThreadsNext
    \/ LoadResetEncodings
    \/ LoadResetNames
    \/ \E files \in ListDirs : LoadResetUserIds(files)
    \/ LoadAppendEncoding
    \/ LoadAppendName
    \/ LoadAppendUserId
    \/ \E t \in Threads, face \in KnownUsers : MatchFace(t, face)
    \/ ReadKnownName
    \/ ReadKnownUserId

-----------------------------------------------------------------------------
(* Specifications.                                                         *)

\* the ledger, driven by constructions, add_block calls and mutations
InitChain == ChainInit /\ LiveIdle /\ TrackerInit /\ StoreIdle /\ SessionIdle /\ ThreadsIdle /\ EmotionInit
SpecChain == InitChain /\ [][ChainNext]_vars

\* one call of detect_liveness for each frame, bounding box and signals
InitLive == ChainInit /\ LiveInit /\ TrackerInit /\ StoreIdle /\ SessionIdle /\ ThreadsIdle /\ EmotionInit
SpecLive == InitLive /\ [][LiveNext]_vars

\* the tracker's methods called frame after frame for one identity
InitTrack == ChainInit /\ LiveIdle /\ TrackerInit /\ StoreIdle /\ SessionIdle /\ ThreadsIdle /\ EmotionInit
SpecTrack == InitTrack /\ [][TrackNext]_vars

\* the tracker's liveness windows, call by call
InitSmooth == ChainInit /\ LiveIdle /\ TrackerInit /\ StoreIdle /\ SessionIdle /\ ThreadsIdle /\ EmotionInit
SpecSmooth == InitSmooth /\ [][SmoothNext]_vars

\* attendance sessions of the constructed application, frame by frame
Init == SessionInit /\ LiveIdle /\ TrackerInit /\ ThreadsIdle /\ EmotionInit
Next == SessionNext
Spec == Init /\ [][Next]_vars

\* the GUI thread and the threads start_attendance runs on, statement by
\* statement
InitThreads == ChainInit /\ LiveIdle /\ TrackerInit /\ StoreIdle /\ SessionIdle /\ ThreadsInit /\ EmotionInit
SpecThreads == InitThreads /\ [][ThreadsNext]_vars

\* the emotion detector, call by call
InitEmotion == ChainInit /\ LiveIdle /\ TrackerInit /\ StoreIdle /\ SessionIdle /\ ThreadsIdle /\ EmotionInit
SpecEmotion == InitEmotion /\ [][EmotionNext]_vars

\* the attendance store used through one connection, call by call
InitStore == ChainInit /\ LiveIdle /\ TrackerInit /\ StoreInit /\ SessionIdle /\ ThreadsIdle /\ EmotionInit
SpecStore == InitStore /\ [][StoreNext]_vars

\* mark_attendance calls of several connections on one date, statement by
\* statement, the users registered
\* one session, several faces of a frame matching one user
InitFaces == FacesInit /\ LiveIdle /\ TrackerInit /\ ThreadsIdle /\ EmotionInit
SpecFaces == InitFaces /\ [][FacesNext]_vars

\* the session threads and a reload of the registered users
InitLists == ChainInit /\ LiveIdle /\ TrackerInit /\ StoreIdle /\ SessionIdle /\ ThreadsIdle /\ EmotionInit
SpecLists == InitLists /\ [][ListsNext]_vars

\* the ledger under the session threads start_attendance_clicked starts
InitAdders == AddersInit /\ LiveIdle /\ TrackerInit /\ StoreIdle /\ SessionIdle /\ ThreadsIdle /\ EmotionInit
SpecAdders == InitAdders /\ [][AddersNext]_vars

InitWriters == ChainInit /\ LiveIdle /\ TrackerInit /\ StoreIdle /\ SessionIdle /\ ThreadsIdle /\ EmotionInit
SpecWriters == InitWriters /\ [][WritersNext]_vars

-----------------------------------------------------------------------------
(* Ledger: properties.                                                     *)

\* C5: on a chain of at least 2 blocks that is_chain_valid accepts, a step that
\* changes the data of a block i > 0 and keeps its stored hash, or that sets
\* the previous_hash of a block i > 0 to something else than block i-1's hash
\* (whatever is done to the stored hash), leaves a chain is_chain_valid rejects.
C5_TamperDetected ==
    [][(tampered = "none" /\ tampered' # "none"
            /\ Len(chain) >= 2 /\ is_chain_valid(chain))
        => ~is_chain_valid(chain')]_vars

C5_Witness ==
    /\ tampered = "prev"
    /\ \E i \in 2..Len(chain) :
        /\ chain[i].previous_hash # chain[i - 1].hash
        /\ chain[i].hash = calculate_hash(chain[i])

\* C6: a construction that loads the file save_chain wrote for the chain in
\* memory yields that chain again: as many blocks, every index, timestamp,
\* data, previous_hash, hash and nonce as saved, and a chain is_chain_valid
\* accepts.
C6_RoundTrip ==
    [][(loads' = loads + 1 /\ tampered = "none" /\ file = SavedFile(chain))
        => (chain' = chain /\ is_chain_valid(chain'))]_vars

C6_Witness ==
    /\ loads >= 1
    /\ lastReturn = NoneHash
    /\ tampered = "none"
    /\ Len(chain) >= 2
    /\ \E i \in 1..Len(chain) : chain[i].nonce > 0

\* C7: a chain built by the first startup and add_block calls is well formed:
\* block k has index k, its hash is calculate_hash of its fields, the hash
\* starts with `difficulty` zeros, block 0 has previous_hash "0" and every
\* later block the hash of the block before; add_block returned the hash of
\* the block it appended; is_chain_valid accepts the chain.
C7_WellFormed ==
    (bcUp /\ tampered = "none") =>
        /\ Len(chain) >= 1
        /\ \A k \in 1..Len(chain) :
            /\ chain[k].index = k - 1
            /\ chain[k].hash = calculate_hash(chain[k])
            /\ HexPrefix(chain[k].hash, difficulty) = Zeros(difficulty)
            /\ chain[k].previous_hash =
                    IF k = 1 THEN ZeroHash ELSE chain[k - 1].hash
        /\ (lastReturn # NoneHash => lastReturn = chain[Len(chain)].hash)
        /\ is_chain_valid(chain)

C7_Witness ==
    /\ tampered = "none"
    /\ Len(chain) = MaxChain + 1
    /\ lastReturn = chain[Len(chain)].hash
    /\ \A k \in 1..Len(chain) : chain[k].nonce > 0

-----------------------------------------------------------------------------
(* Liveness scorer: properties.                                            *)

\* C9: when the bounding box clamped to the frame is empty or inverted, or is
\* less than 80 pixels high or wide, detect_liveness returns (False, 0.0) and
\* invokes none of the five extractors.
C9_SmallRegionRejected ==
    LET top == Max(0, face_location[1])
        right == Min(frameShape[2], face_location[2])
        bottom == Min(frameShape[1], face_location[3])
        left == Max(0, face_location[4])
    IN  (lvPc = "done"
            /\ (bottom <= top \/ right <= left
                    \/ bottom - top < 80 \/ right - left < 80))
        => (lvResult = [is_live |-> FALSE, score |-> 0] /\ lvInvoked = {})

C9_Witness ==
    /\ lvPc = "done"
    /\ face_location[1] < 0
    /\ face_location[3] > frameShape[1]
    /\ frameShape[1] >= 80
    /\ face_location[2] - face_location[4] = 79
    /\ face_location[4] > 0
    /\ face_location[2] <= frameShape[2]
    /\ lvResult = [is_live |-> FALSE, score |-> 0]
    /\ lvInvoked = {}

\* C10: the score detect_liveness thresholds is the weighted fusion halved
\* once when the screen flag is set or (texture_score < 20 and
\* color_diversity < 12): half of it, not a quarter, when both hold, and the
\* fusion itself when neither holds.
C10_PenaltyOnce ==
    (lvPc = "done" /\ lvInvoked # {}) =>
        LET screen == lvSignals.is_screen
            low == lvSignals.texture_score < 20 /\ lvSignals.color_diversity < 12
            fused == Fusion(lvSignals)
        IN  /\ (screen \/ low) => 2 * lvScore = fused
            /\ (screen /\ low /\ fused # 0) => 4 * lvScore # fused
            /\ ~(screen \/ low) => lvScore = fused
            /\ lvResult.score = Round3(lvScore)

C10_Witness ==
    /\ lvPc = "done"
    /\ lvInvoked = Extractors
    /\ lvSignals.is_screen
    /\ lvSignals.texture_score < 20
    /\ lvSignals.color_diversity < 12
    /\ lvScore > 0
    /\ 2 * lvScore = Fusion(lvSignals)

-----------------------------------------------------------------------------
(* AttendanceTracker: properties.                                          *)

\* C8: an identity whose consecutive_detections has reached detection_threshold
\* is stable; is_stable of a stable identity stays true across every call with
\* is_detected true and every missed call made when at most detection_cooldown
\* frames have passed since last_seen; it goes back to false only in a missed
\* call made more than detection_cooldown frames after last_seen, which also
\* sets consecutive_detections to 0.
C8_StableUntilCooldown ==
    /\ [](\A u \in DOMAIN detection_history :
            detection_history[u].consecutive_detections >= 5
                => detection_history[u].is_stable)
    /\ [][\A u \in DOMAIN detection_history :
            (detection_history[u].is_stable /\ ~detection_history'[u].is_stable)
                => /\ lastCall' = [op |-> "update_detection", user_id |-> u,
                                   is_detected |-> FALSE]
                   /\ frame_count - detection_history[u].last_seen > 30
                   /\ detection_history'[u].consecutive_detections = 0]_vars

C8_Witness ==
    /\ "u1" \in DOMAIN detection_history
    /\ detection_history["u1"].is_stable
    /\ lastCall = [op |-> "update_detection", user_id |-> "u1", is_detected |-> FALSE]
    /\ frame_count - detection_history["u1"].last_seen = 30

-----------------------------------------------------------------------------
(* The attendance session: properties.                                     *)

\* C1: in a session, for every identity and calendar date, however many
\* processed frames find the identity stable and smoothed-live and whether or
\* not the write or the lookup raised on some of them, the attendance table
\* holds at most one row and the ledger at most one block for the pair, and
\* with the ledger enabled a pair has a block exactly when it has a row.
C1_OneRowOneBlock ==
    \A u \in KnownUsers, d \in 1..MaxDay :
        /\ Cardinality(RowsFor(attendance, u, d)) <= 1
        /\ Cardinality(ChainRecordsFor(chain, u, d)) <= 1
        /\ config.enable_blockchain
            => Cardinality(ChainRecordsFor(chain, u, d))
                    = Cardinality(RowsFor(attendance, u, d))

\* C2: with anti-spoofing enabled, a step appends a ledger block for an
\* identity or calls mark_attendance for it only while the faces of a
\* processed frame are handled and only if, in that frame, the tracker reports
\* the identity stable, the mean of its liveness window is at least 0.7 and it
\* was not in recognized_today.
C2_MarkOnlyStableLiveUnmarked ==
    [][\A u \in KnownUsers :
        (/\ config.enable_antispoofing
         /\ \/ attempts'[u] > attempts[u]
            \/ \E d \in 1..MaxDay :
                    ChainRecordsFor(chain', u, d) # ChainRecordsFor(chain, u, d)
            \/ RowsFor(attendance', u, today) # RowsFor(attendance, u, today))
        => /\ phase = "faces"
           /\ frame_count % process_interval = 0
           /\ u \in DOMAIN detection_history'
           /\ detection_history'[u].is_stable
           /\ detection_history'[u].consecutive_detections >= detection_threshold
           /\ u \in DOMAIN liveness_history'
           /\ SumSeq(liveness_history'[u]) >= 700 * Len(liveness_history'[u])
           /\ u \notin recognized_today]_vars

\* a row written by the session for an identity whose liveness window holds a
\* score below 0.7 beside scores that lift the mean to 0.7
C2_Witness ==
    /\ config.enable_antispoofing
    /\ attempts["u1"] = 1
    /\ RowsFor(attendance, "u1", today) # {}
    /\ "u1" \in recognized_today
    /\ "u1" \in DOMAIN liveness_history
    /\ \E i \in 1..Len(liveness_history["u1"]) : liveness_history["u1"][i] < 700

\* C3: in a session that has made no write for an identity that has a row for
\* today's date, the pass of the per-face loop that matches the identity leaves
\* it in recognized_today, and no step appends a ledger block for it or calls
\* mark_attendance for it.
C3_NoRemarkAfterRestart ==
    [][\A u \in KnownUsers :
        (/\ phase \in {"loop", "faces"}
         /\ attempts[u] = 0
         /\ RowsFor(attendance, u, today) # {})
        => /\ attempts'[u] = 0
           /\ ChainRecordsFor(chain', u, today) = ChainRecordsFor(chain, u, today)
           /\ (facesLeft # <<>> /\ Head(facesLeft) = u /\ facesLeft' = Tail(facesLeft))
                => u \in recognized_today']_vars

-----------------------------------------------------------------------------
(* Starting and stopping a session: properties.                            *)

\* C4: at every moment at most one thread is starting or running
\* start_attendance, and the flag of a thread that is in the loop stays set
\* until the window is closed: no start that is rejected or fails clears it.
C4_OneSession ==
    /\ Cardinality(SessionThreads) <= 1
    /\ \A t \in Threads : pc[t] = "loop" /\ ~closed => attendance_running

-----------------------------------------------------------------------------
(* Emotion detector: properties.                                           *)

\* C11, as amended: for a history of n >= 1 labels, e of them engaged and d
\* disengaged, calculate_engagement_score returns 50 + 50 * (e - 0.5 * d) / n
\* rounded to two decimals (within 0.005 of it), a value in [0, 100]; for the
\* empty history it returns 50.0.
C11_EngagementRounded ==
    emoCall.op = "calculate_engagement_score" =>
        LET n == Len(emotion_history)
            e == CountIn(emotion_history, {"Happy", "Surprise"})
            d == CountIn(emotion_history, {"Sad", "Anger", "Fear"})
            diff == emoCall.ret * n - (5000 * n + 5000 * e - 2500 * d)
        IN  /\ n = 0 => emoCall.ret = 5000
            /\ n > 0 => 2 * diff <= n /\ 0 - 2 * diff <= n
            /\ emoCall.ret >= 0 /\ emoCall.ret <= 10000
            /\ emotion_history = <<"Happy", "Happy", "Sad">> => emoCall.ret = 7500

\* the score of a history for which the quotient has more than two decimals
C11_Witness ==
    /\ emoCall.op = "calculate_engagement_score"
    /\ emotion_history = <<"Happy", "Sad", "Neutral">>
    /\ emoCall.ret = 5833

\* C11, as stated: the score returned for a non-empty history is exactly
\* 50 + 50 * (e - 0.5 * d) / n, and 50.0 for the empty one.
C11_EngagementExact ==
    emoCall.op = "calculate_engagement_score" =>
        LET n == Len(emotion_history)
            e == CountIn(emotion_history, {"Happy", "Surprise"})
            d == CountIn(emotion_history, {"Sad", "Anger", "Fear"})
        IN  /\ n = 0 => emoCall.ret = 5000
            /\ n > 0 => emoCall.ret * n = 5000 * n + 5000 * e - 2500 * d

-----------------------------------------------------------------------------
(* The attendance store: properties.                                       *)

C13_UniqueUnderWriters ==
    \A u \in Users :
        /\ Cardinality(RowsFor(attendance, u, today)) <= 1
        /\ users[u].total_attendance <= 1

-----------------------------------------------------------------------------
(* The attendance session: properties of the marking path.                 *)

\* C14: a pass of the per-face loop that calls mark_attendance for an identity
\* leaves the identity in recognized_today whether or not the write succeeded,
\* and the session calls mark_attendance for an identity at most once.
C14_RecognizedRegardless ==
    [][\A u \in KnownUsers :
        attempts'[u] > attempts[u]
            => /\ u \in recognized_today'
               /\ attempts'[u] = 1]_vars

-----------------------------------------------------------------------------
(* Starting and stopping a session: properties of the ways a session ends. *)

\* C15: an exception raised while a frame is processed does not end the
\* session: a thread leaves the while loop only through the loop test or a
\* break, on its way to the cleanup, and a thread whose frame raised is still
\* in the loop with attendance_running as it was.
C15_ExceptionKeepsSession ==
    [][\A t \in Threads :
        pc[t] = "loop" /\ pc'[t] # "loop"
            => /\ pc'[t] = "cleanup"
               /\ attendance_running' = attendance_running]_vars

\* C16: a thread that opened the camera has released it by the time it has
\* set attendance_running to false in its finally block.
C16_ReleasedBeforeStopped ==
    \A t \in Threads : pc[t] \in {"returning", "done"} => t \notin cameras

\* C17: with enable_antispoofing false a pass of the per-face loop invokes
\* neither the scorer nor update_liveness_smooth, records is_live = True and
\* liveness_score = 1.0 for the identity, and calls mark_attendance for it when
\* it is stable and neither in recognized_today nor found in today's records.
C17_AntispoofingOff ==
    [][\A u \in KnownUsers :
        (~config.enable_antispoofing /\ facesLeft # <<>> /\ Head(facesLeft) = u
            /\ facesLeft' = Tail(facesLeft))
        => /\ liveness_history' = liveness_history
           /\ liveness_history' = EmptyDict
           /\ lvPc' = "idle" /\ lvResult' = lvResult
           /\ detected_faces'[u].is_live
           /\ detected_faces'[u].liveness_score = [num |-> 1000, den |-> 1]
           /\ (/\ detection_history'[u].is_stable
               /\ u \notin recognized_today
               /\ ~detected_faces'[u].already_marked_in_db)
              => /\ attempts'[u] = attempts[u] + 1
                 /\ lastMark'.op = "mark_attendance"]_vars

\* with anti-spoofing disabled, a row written for an identity on the frame it
\* became stable
C17_Witness ==
    /\ ~config.enable_antispoofing
    /\ attempts["u1"] = 1
    /\ RowsFor(attendance, "u1", today) # {}
    /\ "u1" \in recognized_today
    /\ "u1" \in DOMAIN detected_faces
    /\ detected_faces["u1"].just_marked
    /\ detected_faces["u1"].liveness_score = [num |-> 1000, den |-> 1]
    /\ detection_history["u1"].consecutive_detections = detection_threshold
    /\ liveness_history = EmptyDict

\* C18: a processed frame in which a tracked identity is not matched restarts
\* its count of consecutive detections, so that is_stable becomes true only on
\* the fifth of five processed frames in a row that match the identity.
C18_MissRestartsCount ==
    [][\A u \in KnownUsers :
        /\ (phase = "faces" /\ phase' = "loop"
                /\ u \in DOMAIN detection_history /\ u \notin current_detections)
            => detection_history'[u].consecutive_detections = 0
        /\ (u \in DOMAIN detection_history' /\ detection_history'[u].is_stable
                /\ ~(u \in DOMAIN detection_history /\ detection_history[u].is_stable))
            => frame_count = detection_history[u].last_seen + process_interval]_vars

\* C19: with anti-spoofing enabled, a pass of the per-face loop calls
\* mark_attendance or appends a ledger block for an identity only if the
\* scorer returned is_live = True for that frame and the mean of the liveness
\* window is at least 0.7.
C19_BothGates ==
    [][\A u \in KnownUsers :
        (/\ config.enable_antispoofing
         /\ \/ attempts'[u] > attempts[u]
            \/ Len(chain') > Len(chain))
        => /\ lvResult'.is_live
           /\ SmoothedLive(liveness_history'[u])]_vars

-----------------------------------------------------------------------------
(* AttendanceTracker: properties of the liveness window.                   *)

\* C20: after n scores for an identity its window holds the min(n, 10) most
\* recent of them in arrival order; update_liveness_smooth returns the
\* arithmetic mean of the window (of the single score after the first call)
\* and the verdict mean >= 0.7; a call for one identity leaves the window of
\* every other identity as it was.
C20_FifoWindow ==
    /\ [](\A u \in DOMAIN observed :
            LET n == Len(observed[u])
                m == IF n < 10 THEN n ELSE 10
                recent == [i \in 1..m |-> observed[u][n - m + i]]
            IN  /\ u \in DOMAIN liveness_history
                /\ liveness_history[u] = recent
                /\ (lastCall.op = "update_liveness_smooth" /\ lastCall.user_id = u)
                    => /\ lastCall.ret.smoothed_score.den = m
                       /\ lastCall.ret.smoothed_score.num = SumSeq(recent)
                       /\ lastCall.ret.is_live <=> (SumSeq(recent) >= 700 * m)
                       /\ n = 1 => lastCall.ret.smoothed_score
                                        = [num |-> observed[u][1], den |-> 1])
    /\ [][\A u \in DOMAIN liveness_history :
            (lastCall'.op = "update_liveness_smooth" /\ lastCall'.user_id # u)
                => liveness_history'[u] = liveness_history[u]]_vars

\* the eleventh score for u1 has pushed out the first, a low one, while u2
\* has a window of its own
C20_Witness ==
    /\ "u1" \in DOMAIN observed /\ "u2" \in DOMAIN observed
    /\ Len(observed["u1"]) = 11
    /\ observed["u1"][1] = 400
    /\ Len(liveness_history["u1"]) = 10
    /\ \A i \in 1..10 : liveness_history["u1"][i] = 900
    /\ lastCall.op = "update_liveness_smooth" /\ lastCall.user_id = "u1"
    /\ liveness_history["u2"] = <<400>>

\* C21: should_display is independent of the stability reset: an identity that
\* is displayed stays displayed across every tracker call after which fewer
\* than display_duration frames have elapsed since it was last seen, the
\* missed calls made more than detection_cooldown frames after last_seen
\* included.
C21_DisplayIndependentOfReset ==
    [][\A u \in DOMAIN detection_history :
        (/\ should_display(detection_history, frame_count, u)
         /\ frame_count' - detection_history'[u].last_seen < display_duration)
            => should_display(detection_history', frame_count', u)]_vars

\* C22: once an identity is marked at frame f its just_marked flag stays set
\* until a processed frame with frame_count - f > 90 clears it, and while the
\* flag is set the identity stays in recognized_today.
C22_JustMarkedLasts ==
    [][\A u \in DOMAIN detected_faces :
        detected_faces[u].just_marked
            => /\ u \in recognized_today'
               /\ ~detected_faces'[u].just_marked
                    => frame_count' - detected_faces[u].mark_time > 90]_vars

\* C23: the day guard is per calendar day: whenever a processed face is stable
\* and smoothed-live and the store holds no row of its identity for the
\* current date, mark_attendance is called for it, whatever was marked for
\* the identity on an earlier date of the same session.
C23_DayGuardPerDay ==
    [][\A u \in KnownUsers :
        (/\ phase = "faces"
         /\ facesLeft # <<>>
         /\ Head(facesLeft) = u
         /\ facesLeft' = Tail(facesLeft)
         /\ detected_faces'[u].is_stable
         /\ detected_faces'[u].is_live
         /\ RowsFor(attendance, u, today) = {})
            => attempts'[u] = attempts[u] + 1]_vars

\* C24: the score detect_liveness returns lies in [0, 1] (0..1000 thousandths)
\* for every frame, bounding box and value of the five signals.
C24_ScoreInUnitInterval ==
    lvPc = "done" => /\ lvResult.score >= 0
                     /\ lvResult.score <= 1000

\* C25: the ledger grows strictly sequentially under the add_block calls of
\* the session threads: no two blocks of the chain share an index or a
\* previous_hash, and is_chain_valid() is true.
C25_SequentialGrowth ==
    /\ \A i, j \in 1..Len(chain) :
            i # j => /\ chain[i].index # chain[j].index
                     /\ chain[i].previous_hash # chain[j].previous_hash
    /\ is_chain_valid(chain)

\* C26: a genesis block is created only when no chain file exists: a
\* construction that finds a file, whatever it holds, leaves the file as it is
\* and takes its chain from it; a construction that finds no file leaves a
\* chain of exactly one mined block with index 0, previous_hash "0" and
\* data.type "genesis".
C26_GenesisOnlyWithoutFile ==
    [][/\ (loads' = loads + 1)
            => /\ file' = file
               /\ \A ts \in Times :
                    chain' = <<GenesisBlock(ts)>>
                        => file.text = SavedFile(chain').text
       /\ (~file.exists /\ file'.exists)
            => /\ Len(chain') = 1
               /\ chain'[1].index = 0
               /\ chain'[1].previous_hash = ZeroHash
               /\ chain'[1].data.type = "genesis"
               /\ HexPrefix(chain'[1].hash, difficulty) = Zeros(difficulty)]_vars

\* C27: a mark_attendance call made while a row exists for the user and the
\* current date returns False, with the reason "Already marked today" when
\* the call does not raise, and leaves the attendance rows and every user's
\* total_attendance and last_attendance as they were.
C27_AlreadyMarkedUnchanged ==
    [][\A u \in Users :
        (/\ RowsFor(attendance, u, today) # {}
         /\ today' = today
         /\ lastMark'.op = "mark_attendance"
         /\ lastMark'.user_id = u
         /\ lastMark'.date = today)
        => /\ lastMark'.ret \in {"Already marked today", "error"}
           /\ attendance' = attendance
           /\ users' = users]_vars

\* u1, marked once on the first date and once on the second, is refused on the
\* second date
C27_Witness ==
    /\ lastMark = [op |-> "mark_attendance", user_id |-> "u1", date |-> today,
                   ret |-> "Already marked today"]
    /\ today = 2
    /\ "u1" \in DOMAIN users
    /\ users["u1"].total_attendance = 2
    /\ users["u1"].last_attendance = 2
    /\ Cardinality(RowsFor(attendance, "u1", today)) = 1

\* C28: an add_user call that returns True has stored the user, one that
\* returns False has left the users table as it was, and no add_user call
\* deletes or overwrites the row (total_attendance included) of a user that
\* was registered before it.
C28_AddUserKeepsRows ==
    [][(lastMark'.op = "add_user" /\ today' = today)
        => /\ lastMark'.ret = "True" => lastMark'.user_id \in DOMAIN users'
           /\ lastMark'.ret = "False" => users' = users
           /\ \A u \in DOMAIN users :
                /\ u \in DOMAIN users'
                /\ users'[u] = users[u]]_vars

\* C29: a face that matches an identity already matched by another face of
\* the same processed frame neither raises the identity's
\* consecutive_detections nor adds a score to its liveness window, so an
\* identity is stable only once detection_threshold processed frames have
\* been read.
C29_OncePerFrame ==
    /\ [][\A u \in KnownUsers :
            (/\ phase = "faces"
             /\ facesLeft # <<>>
             /\ Head(facesLeft) = u
             /\ facesLeft' = Tail(facesLeft)
             /\ u \in current_detections)
                => /\ detection_history'[u].consecutive_detections
                        = detection_history[u].consecutive_detections
                   /\ liveness_history' = liveness_history]_vars
    /\ [](\A u \in DOMAIN detection_history :
            detection_history[u].is_stable
                => frame_count >= detection_threshold * process_interval)

\* C30: while a session thread is in its loop the lists known_encodings,
\* known_names and known_user_ids have the same length and entry k of each
\* belongs to the same user, and a match index computed from known_encodings
\* is an index of the matched user in known_names and in known_user_ids.
C30_ListsAligned ==
    (\E t \in Threads : pc[t] = "loop" /\ ~closed) =>
        /\ Len(known_names) = Len(known_encodings)
        /\ Len(known_user_ids) = Len(known_encodings)
        /\ \A k \in 1..Len(known_encodings) :
            /\ known_encodings[k] = FaceEncoding(known_user_ids[k])
            /\ known_names[k] = NameOf(known_user_ids[k])
        /\ matcher.pc \in {"matched", "named"}
            => /\ matcher.best_match_idx \in 1..Len(known_names)
               /\ known_names[matcher.best_match_idx] = NameOf(matcher.face)
               /\ matcher.best_match_idx \in 1..Len(known_user_ids)
               /\ known_user_ids[matcher.best_match_idx] = matcher.face

=============================================================================
